---- MODULE Spec2Model ----
(***************************************************************************)
(* A model of the nrv::image pixel buffer, the render_img /                *)
(* render_transform scans, the two error-diffusion ditherers and the 8-bit *)
(* codec boundary of mnerv/dithercpp.                                      *)
(*                                                                         *)
(* Samples of a pixel buffer are kept on a fixed-point grid: the integer v *)
(* stands for the float v / One.  A product err * err_bias is rounded to   *)
(* the nearest grid point, as a float product is rounded to the nearest    *)
(* float.  The codec (x / 255.0f, x * 255.0f) is modelled in IEEE single   *)
(* precision, with a 24-bit significand and round-to-nearest-even.         *)
(*                                                                         *)
(* m_buffer is a heap array of m_size floats.  An access at an index       *)
(* outside 0 .. m_size-1 is undefined behaviour: a read there yields an    *)
(* arbitrary value, a write there lands outside the buffer.  Both are      *)
(* recorded in the variable overrun.                                       *)
(***************************************************************************)
EXTENDS Integers, Sequences, FiniteSets, TLC

\* ------------------------------------------------------------ bounds
MaxW == 4
MaxH == 4

\* 1.0f on the fixed-point grid (tenths and sixteenths are exact).
One == 10 * 4096
Half == One \div 2

\* The channel counts stbi_load and the image constructor hand over.
ChannelCounts == {1, 3, 4}

\* The two images of main(): the loaded one and the one it renders into.
ImgIds == {"img", "out"}

\* Grey levels of the initial images, as <<even columns, odd columns>>.
Patterns ==
    { <<Half, Half>>, <<One \div 4, One \div 4>>, <<(3 * One) \div 4, (3 * One) \div 4>>,
      <<(6 * One) \div 10, (4 * One) \div 10>> }

\* Colours handed to set_pixel and returned by position callbacks.
Colours ==
    { <<One, Half, One \div 4, (3 * One) \div 4>>,
      <<0, One \div 4, One, Half>> }

\* What a read outside the buffer may yield.
Garbage == {0, One}

\* ------------------------------------------------------------ nrv::image
\* image::image(width, height, channels): the members and the buffer.
NewImage(w, h, c, buf) ==
    [width |-> w, height |-> h, channels |-> c, size |-> w * h * c, buffer |-> buf]

\* auto const index = (y * m_channels) * m_width + (x * m_channels);
Index(im, x, y) == (y * im.channels) * im.width + (x * im.channels)

\* The negation of the guard of set_pixel / get_pixel_rgb / get_pixel_rgba.
InBoundsNoUpperX(im, x, y) == ~(x < 0 \/ y < 0 \/ y > im.height - 1)
InBounds(im, x, y) ==
    ~(x < 0 \/ x > im.width - 1 \/ y < 0 \/ y > im.height - 1)

\* m_buffer[k] = v for every k |-> v of writes; a k outside the buffer is not
\* a sample of the buffer.
Store(buf, writes) ==
    [k \in DOMAIN buf |-> IF k \in DOMAIN writes THEN writes[k] ELSE buf[k]]

\* m_buffer[k]; outside the buffer the value read is g.
LoadIndeterminate(im, k, g) == g
Load(im, k, g) == IF k \in DOMAIN im.buffer THEN im.buffer[k] ELSE g

\* The assignments of set_pixel(x, y, vec3), as index |-> value.
Writes3(im, x, y, color) ==
    IF ~InBounds(im, x, y) THEN << >>
    ELSE LET index == Index(im, x, y)
         IN  (index + 0 :> color[1]) @@ (index + 1 :> color[2]) @@ (index + 2 :> color[3])

\* The assignments of set_pixel(x, y, vec4): those of the vec3 overload, and
\* the alpha sample when the buffer has four channels.
Writes4AlphaOnRgb(im, x, y, color) ==
    IF ~InBounds(im, x, y) THEN << >>
    ELSE LET index == Index(im, x, y)
         IN  IF im.channels >= 3
             THEN (index + 3 :> color[4]) @@ Writes3(im, x, y, color)
             ELSE Writes3(im, x, y, color)
Writes4(im, x, y, color) ==
    IF ~InBounds(im, x, y) THEN << >>
    ELSE LET index == Index(im, x, y)
         IN  IF im.channels = 4
             THEN (index + 3 :> color[4]) @@ Writes3(im, x, y, color)
             ELSE Writes3(im, x, y, color)

SetPixel3(im, x, y, color) ==
    [im EXCEPT !.buffer = Store(@, Writes3(im, x, y, color))]
SetPixel4(im, x, y, color) ==
    [im EXCEPT !.buffer = Store(@, Writes4(im, x, y, color))]

\* The indices get_pixel_rgb / get_pixel_rgba read.
Reads3(im, x, y) ==
    IF ~InBounds(im, x, y) THEN {}
    ELSE LET index == Index(im, x, y) IN {index + 0, index + 1, index + 2}
Reads4(im, x, y) ==
    IF ~InBounds(im, x, y) THEN {}
    ELSE LET index == Index(im, x, y)
         IN  IF im.channels = 4 THEN {index + 0, index + 1, index + 2, index + 3}
             ELSE {index + 0, index + 1, index + 2}

GetPixelRgb(im, x, y, g) ==
    IF ~InBounds(im, x, y) THEN <<0, 0, 0>>
    ELSE LET index == Index(im, x, y)
         IN  <<Load(im, index + 0, g), Load(im, index + 1, g), Load(im, index + 2, g)>>
GetPixelRgba(im, x, y, g) ==
    IF ~InBounds(im, x, y) THEN <<0, 0, 0, 0>>
    ELSE LET index == Index(im, x, y)
             alpha == IF im.channels = 4 THEN Load(im, index + 3, g) ELSE One
         IN  <<Load(im, index + 0, g), Load(im, index + 1, g), Load(im, index + 2, g), alpha>>

\* The indices of a set of accesses that fall outside the buffer.
Outside(im, idx) == idx \ DOMAIN im.buffer

\* ------------------------------------------------------------ callbacks
\* round-to-nearest of e * (num / den): the float product err * err_bias.
MulW(e, num, den) == (2 * e * num + den) \div (2 * den)

\* A render_fn_t: a colour from the position alone.
RenderFn(pos) ==
    IF (pos[1] + pos[2]) % 2 = 0
    THEN <<One, Half, One \div 4, (3 * One) \div 4>>
    ELSE <<0, One \div 4, One, Half>>

\* rgb_to_greyscale of main(): glm::vec4(greyscale).
RgbToGreyscale(pos, pixel) ==
    LET greyscale == MulW(pixel[1], 2162, 10000) + MulW(pixel[2], 7152, 10000)
                       + MulW(pixel[3], 722, 10000)
    IN  <<greyscale, greyscale, greyscale, greyscale>>

\* quantise_greyscale_1bit of main(): in.r < 0.5f ? vec4{0.0f} : vec4{1.0f}.
QuantiseGreyscale1bit(pixel) ==
    IF pixel[1] < Half THEN <<0, 0, 0, 0>> ELSE <<One, One, One, One>>

\* The transform_fn_t callbacks of the source: the quantiser and the identity.
TransformFns == {"quantise", "identity"}
TransformFn(fn, pixel) ==
    IF fn = "quantise" THEN QuantiseGreyscale1bit(pixel) ELSE pixel

\* ------------------------------------------------------------ kernels
\* <<dx, dy, numerator, denominator>> per update_pixel call, in call order.
FloydSteinbergBackward ==
    << <<-1, 0, 7, 16>>, <<-1, 1, 3, 16>>, <<0, 1, 5, 16>>, <<1, 1, 1, 16>> >>
FloydSteinbergHeavy ==
    << <<1, 0, 8, 16>>, <<-1, 1, 4, 16>>, <<0, 1, 5, 16>>, <<1, 1, 1, 16>> >>
FloydSteinberg ==
    << <<1, 0, 7, 16>>, <<-1, 1, 3, 16>>, <<0, 1, 5, 16>>, <<1, 1, 1, 16>> >>

MinimizedAverageError ==
    << <<1, 0, 7, 48>>, <<2, 0, 5, 48>>,
       <<-2, 1, 3, 48>>, <<-1, 1, 5, 48>>, <<0, 1, 7, 48>>, <<1, 1, 5, 48>>, <<2, 1, 3, 48>>,
       <<-2, 2, 1, 48>>, <<-1, 2, 3, 48>>, <<0, 2, 5, 48>>, <<1, 2, 3, 48>>, <<2, 2, 1, 48>> >>

KernelOf(name) == IF name = "dither_fs" THEN FloydSteinberg ELSE MinimizedAverageError

\* err * err_bias, component by component.
Scaled(err, t) ==
    <<MulW(err[1], t[3], t[4]), MulW(err[2], t[3], t[4]),
      MulW(err[3], t[3], t[4]), MulW(err[4], t[3], t[4])>>

\* update_pixel(offset, err_bias) at pos on image d.
UpdatePixel(d, pos, t, err, g) ==
    LET x == pos[1] + t[1]
        y == pos[2] + t[2]
        p == GetPixelRgba(d, x, y, g)
        e == Scaled(err, t)
        k == <<p[1] + e[1], p[2] + e[2], p[3] + e[3], p[4] + e[4]>>
    IN  SetPixel4(d, x, y, <<k[1], k[2], k[3], One>>)

\* The first n update_pixel calls of the kernel, in order.
RECURSIVE ApplyKernel(_, _, _, _, _, _)
ApplyKernel(d, pos, kernel, n, err, g) ==
    IF n = 0 THEN d
    ELSE UpdatePixel(ApplyKernel(d, pos, kernel, n - 1, err, g), pos, kernel[n], err, g)

\* The body of the lambda handed to render_img by the ditherers.
DitherPixel(d, pos, pixel, kernel, g) ==
    LET qp  == QuantiseGreyscale1bit(pixel)
        err == <<pixel[1] - qp[1], pixel[2] - qp[2], pixel[3] - qp[3], pixel[4] - qp[4]>>
    IN  ApplyKernel(SetPixel4(d, pos[1], pos[2], qp), pos, kernel, Len(kernel), err, g)

\* The pixels the lambda touches at pos: pos itself and the kernel targets.
Touched(pos, kernel) ==
    {pos} \cup { <<pos[1] + kernel[n][1], pos[2] + kernel[n][2]>> : n \in 1 .. Len(kernel) }

\* ------------------------------------------------------------ scans
\* for (i = 0; i < height; i++) for (j = 0; j < width; j++): the position of
\* the first callback, and the position after the callback at (x, y).
FirstPos(im) == IF im.width > 0 THEN <<0, 0>> ELSE <<0, im.height>>
NextPosInclusive(im, x, y) == IF x + 1 <= im.width THEN <<x + 1, y>> ELSE <<0, y + 1>>
NextPos(im, x, y) == IF x + 1 < im.width THEN <<x + 1, y>> ELSE <<0, y + 1>>

\* The image a render_transform assigns: output.set_pixel(...).
OutputIsSource(a) == a.src
Output(a) == a.dst

\* ------------------------------------------------------------ state
VARIABLES
    mem,      \* ImgIds -> image: the images alive in the calling scope
    op,       \* the call in progress or just finished
    args,     \* the arguments of that call
    pre,      \* mem when that call started
    ret,      \* what the last get_pixel_* returned
    wr,       \* the indices the last set_pixel assigned
    rd,       \* the indices the last get_pixel_* read
    overrun,  \* whether some access so far fell outside a buffer
    status,   \* of a scan: "idle", "run", "done", "failed"
    i, j,     \* the loop counters of the scan (row, column)
    calls,    \* the positions the scan's callback was invoked with, in order
    written,  \* position -> the pixel the scan handed to set_pixel at its turn
    contrib,  \* ditherer: position -> per channel, the sum of err * weight
              \* added to it
    dropped,  \* ditherer: per channel, the sum of err * weight whose target
              \* lies outside the image
    file,     \* codec: the 8-bit samples stbi_load decoded from the file
    fbuf,     \* codec: m_buffer of the image loaded from them, in single precision
    png       \* codec: the 8-bit samples write_png handed to stbi_write_png

vars == <<mem, op, args, pre, ret, wr, rd, overrun, status, i, j, calls,
          written, contrib, dropped, file, fbuf, png>>

codecvars == <<file, fbuf, png>>

scanvars == <<status, i, j, calls, written, contrib, dropped>>

\* An image whose pixels are grey, pat[1] and pat[2] alternating from sample
\* to sample along a row.
PatternImage(w, h, c, pat) ==
    NewImage(w, h, c,
        [k \in 0 .. (w * h * c - 1) |-> IF (k % (w * c)) % 2 = 0 THEN pat[1] ELSE pat[2]])

NoFail == <<-1, -1>>

NoArgs ==
    [x |-> 0, y |-> 0, color |-> <<0, 0, 0, 0>>, set |-> "none",
     src |-> "img", dst |-> "img", fn |-> "none", fail |-> NoFail, times |-> 0]

Init ==
    /\ \E w \in 0 .. MaxW, h \in 0 .. MaxH, c \in ChannelCounts, pat \in Patterns :
          mem = [id \in ImgIds |->
                   IF id = "img" THEN PatternImage(w, h, c, pat)
                   ELSE PatternImage(w, h, c, <<0, 0>>)]
    /\ op = "idle"
    /\ args = NoArgs
    /\ pre = mem
    /\ ret = << >>
    /\ wr = {}
    /\ rd = {}
    /\ overrun = FALSE
    /\ status = "idle"
    /\ i = 0
    /\ j = 0
    /\ calls = << >>
    /\ written = << >>
    /\ contrib = << >>
    /\ dropped = <<0, 0, 0>>
    /\ file = << >>
    /\ fbuf = << >>
    /\ png = << >>

\* The image render_img(image&, sample_fn_t) reads a pixel from: img itself,
\* as it is when the step begins.
SampledAtCall(a) == pre[a.dst]
Sampled(a) == mem[a.dst]

\* ------------------------------------------------------------ pixel access
\* The coordinates a caller may pass: one step outside the image on every side.
Xs(im) == -1 .. im.width
Ys(im) == -1 .. im.height

CallSetPixel3 ==
    /\ op = "idle"
    /\ \E x \in Xs(mem["img"]), y \in Ys(mem["img"]), color \in Colours :
          LET im == mem["img"]
              w  == Writes3(im, x, y, <<color[1], color[2], color[3]>>)
          IN  /\ mem' = [mem EXCEPT !["img"] = SetPixel3(im, x, y, color)]
              /\ args' = [args EXCEPT !.x = x, !.y = y, !.color = color, !.set = "vec3"]
              /\ wr' = DOMAIN w
              /\ overrun' = (overrun \/ Outside(im, DOMAIN w) # {})
    /\ op' = "set_pixel"
    /\ pre' = mem
    /\ rd' = {}
    /\ UNCHANGED <<codecvars, ret, scanvars>>

CallSetPixel4 ==
    /\ op = "idle"
    /\ \E x \in Xs(mem["img"]), y \in Ys(mem["img"]), color \in Colours :
          LET im == mem["img"]
              w  == Writes4(im, x, y, color)
          IN  /\ mem' = [mem EXCEPT !["img"] = SetPixel4(im, x, y, color)]
              /\ args' = [args EXCEPT !.x = x, !.y = y, !.color = color, !.set = "vec4"]
              /\ wr' = DOMAIN w
              /\ overrun' = (overrun \/ Outside(im, DOMAIN w) # {})
    /\ op' = "set_pixel"
    /\ pre' = mem
    /\ rd' = {}
    /\ UNCHANGED <<codecvars, ret, scanvars>>

\* A get from the idle state is at any coordinate; a get after a set is at the
\* coordinate just set.
GetCoords(im) ==
    IF op = "idle" THEN Xs(im) \X Ys(im) ELSE {<<args.x, args.y>>}

CallGetPixelRgb ==
    /\ op \in {"idle", "set_pixel"}
    /\ \E xy \in GetCoords(mem["img"]), g \in Garbage :
          LET im == mem["img"]
              r  == Reads3(im, xy[1], xy[2])
          IN  /\ ret' = GetPixelRgb(im, xy[1], xy[2], g)
              /\ args' = [args EXCEPT !.x = xy[1], !.y = xy[2]]
              /\ rd' = r
              /\ overrun' = (overrun \/ Outside(im, r) # {})
    /\ op' = "get_pixel_rgb"
    /\ pre' = IF op = "idle" THEN mem ELSE pre
    /\ UNCHANGED <<codecvars, mem, wr, scanvars>>

CallGetPixelRgba ==
    /\ op \in {"idle", "set_pixel"}
    /\ \E xy \in GetCoords(mem["img"]), g \in Garbage :
          LET im == mem["img"]
              r  == Reads4(im, xy[1], xy[2])
          IN  /\ ret' = GetPixelRgba(im, xy[1], xy[2], g)
              /\ args' = [args EXCEPT !.x = xy[1], !.y = xy[2]]
              /\ rd' = r
              /\ overrun' = (overrun \/ Outside(im, r) # {})
    /\ op' = "get_pixel_rgba"
    /\ pre' = IF op = "idle" THEN mem ELSE pre
    /\ UNCHANGED <<codecvars, mem, wr, scanvars>>

NextPixel ==
    \/ CallSetPixel3
    \/ CallSetPixel4
    \/ CallGetPixelRgb
    \/ CallGetPixelRgba

SpecPixel == Init /\ [][NextPixel]_vars

\* ------------------------------------------------------------ scans
\* The callback throws at args.fail; the exception leaves the scan.
Throws == args.fail = <<j, i>>

\* The positions a callback may be made to throw at: none, or one of the image.
FailPoints(im) == {NoFail} \cup ((0 .. im.width - 1) \X (0 .. im.height - 1))

\* Entering the loops of a scan over image im.
BeginScan(name, im, a) ==
    /\ op = "idle"
    /\ op' = name
    /\ args' = a
    /\ pre' = mem
    /\ i' = FirstPos(im)[2]
    /\ j' = FirstPos(im)[1]
    /\ status' = IF FirstPos(im)[2] < im.height THEN "run" ELSE "done"
    /\ calls' = << >>
    /\ written' = << >>
    /\ contrib' = [p \in (0 .. im.width - 1) \X (0 .. im.height - 1) |-> <<0, 0, 0>>]
    /\ dropped' = <<0, 0, 0>>
    /\ UNCHANGED <<codecvars, ret, wr, rd, overrun>>

\* j++ and, at the end of a row, i++ with j = 0.
Advance(im) ==
    /\ i' = NextPos(im, j, i)[2]
    /\ j' = NextPos(im, j, i)[1]
    /\ status' = IF NextPos(im, j, i)[2] < im.height THEN "run" ELSE "done"

\* The callback's exception propagates: nothing more is executed.
Propagate ==
    /\ status' = "failed"
    /\ UNCHANGED <<mem, i, j, overrun, written>>

\* render_img(image& img, render_fn_t const& fn)
CallRenderImgFn ==
    /\ \E fl \in FailPoints(mem["img"]) :
          BeginScan("render_img_fn", mem["img"],
                    [NoArgs EXCEPT !.fn = "render", !.fail = fl])
    /\ UNCHANGED mem

RenderImgFnStep ==
    /\ op = "render_img_fn"
    /\ status = "run"
    /\ calls' = Append(calls, <<j, i>>)
    /\ IF Throws THEN Propagate
       ELSE LET im == mem[args.dst]
                c  == RenderFn(<<j, i>>)
            IN  /\ mem' = [mem EXCEPT ![args.dst] = SetPixel4(im, j, i, c)]
                /\ overrun' = (overrun \/ Outside(im, DOMAIN Writes4(im, j, i, c)) # {})
                /\ written' = written @@ (<<j, i>> :> c)
                /\ Advance(im)
    /\ UNCHANGED <<codecvars, op, args, pre, ret, wr, rd, contrib, dropped>>

\* render_img(image& img, sample_fn_t const& fn)
CallRenderImgSample ==
    /\ \E fl \in FailPoints(mem["img"]) :
          BeginScan("render_img_sample", mem["img"],
                    [NoArgs EXCEPT !.fn = "rgb_to_greyscale", !.fail = fl])
    /\ UNCHANGED mem

\* The argument img.get_pixel_rgba(j, i) is evaluated, then fn is called with
\* it, then set_pixel: ret is the pixel handed to fn.
RenderImgSampleStep ==
    /\ op = "render_img_sample"
    /\ status = "run"
    /\ calls' = Append(calls, <<j, i>>)
    /\ \E g \in Garbage :
          LET im    == mem[args.dst]
              pixel == GetPixelRgba(Sampled(args), j, i, g)
              c     == RgbToGreyscale(<<j, i>>, pixel)
          IN  /\ ret' = pixel
              /\ IF Throws THEN Propagate
                 ELSE /\ mem' = [mem EXCEPT ![args.dst] = SetPixel4(im, j, i, c)]
                      /\ overrun' = (overrun
                                       \/ Outside(im, Reads4(im, j, i)) # {}
                                       \/ Outside(im, DOMAIN Writes4(im, j, i, c)) # {})
                      /\ written' = written @@ (<<j, i>> :> c)
                      /\ Advance(im)
    /\ UNCHANGED <<codecvars, op, args, pre, wr, rd, contrib, dropped>>

\* render_img(image const& img, render_set_fn_t const& fn), with a callback
\* that looks at the pixel and assigns nothing.
CallRenderImgVisit ==
    /\ \E fl \in FailPoints(mem["img"]) :
          BeginScan("render_img_visit", mem["img"],
                    [NoArgs EXCEPT !.fn = "observe", !.fail = fl])
    /\ UNCHANGED mem

RenderImgVisitStep ==
    /\ op = "render_img_visit"
    /\ status = "run"
    /\ calls' = Append(calls, <<j, i>>)
    /\ \E g \in Garbage :
          LET im == mem[args.src]
          IN  /\ ret' = GetPixelRgba(im, j, i, g)
              /\ IF Throws THEN Propagate
                 ELSE /\ overrun' = (overrun \/ Outside(im, Reads4(im, j, i)) # {})
                      /\ Advance(im)
                      /\ UNCHANGED mem
    /\ UNCHANGED <<codecvars, op, args, pre, wr, rd, written, contrib, dropped>>

\* A render_transform from img into the other image has returned, and the
\* caller applies the same transform to img in place.
TransformInPlace(name) ==
    /\ op = name
    /\ status = "done"
    /\ args.times = 1
    /\ args.dst # args.src
    /\ args' = [args EXCEPT !.dst = args.src, !.times = 2]
    /\ pre' = mem
    /\ i' = FirstPos(mem[args.src])[2]
    /\ j' = FirstPos(mem[args.src])[1]
    /\ status' = IF FirstPos(mem[args.src])[2] < mem[args.src].height
                 THEN "run" ELSE "done"
    /\ calls' = << >>
    /\ written' = << >>
    /\ UNCHANGED <<codecvars, mem, op, ret, wr, rd, overrun, contrib, dropped>>

\* render_transform(image const& source, image& output, transform_fn_t const& fn)
CallRenderTransformFn ==
    \/ /\ \E d \in ImgIds, f \in TransformFns, fl \in FailPoints(mem["img"]) :
             BeginScan("render_transform_fn", mem["img"],
                       [NoArgs EXCEPT !.dst = d, !.fn = f, !.fail = fl, !.times = 1])
       /\ UNCHANGED mem
    \/ TransformInPlace("render_transform_fn")

RenderTransformFnStep ==
    /\ op = "render_transform_fn"
    /\ status = "run"
    /\ calls' = Append(calls, <<j, i>>)
    /\ \E g \in Garbage :
          LET source == mem[args.src]
              output == mem[Output(args)]
              pixel  == GetPixelRgba(source, j, i, g)
              c      == TransformFn(args.fn, pixel)
          IN  IF Throws THEN Propagate
              ELSE /\ mem' = [mem EXCEPT ![Output(args)] = SetPixel4(output, j, i, c)]
                   /\ overrun' = (overrun
                                    \/ Outside(source, Reads4(source, j, i)) # {}
                                    \/ Outside(output, DOMAIN Writes4(output, j, i, c)) # {})
                   /\ written' = written @@ (<<j, i>> :> c)
                   /\ Advance(source)
    /\ UNCHANGED <<codecvars, op, args, pre, ret, wr, rd, contrib, dropped>>

\* render_transform(image const& source, image& output, sample_fn_t const& fn)
CallRenderTransformSample ==
    \/ /\ \E d \in ImgIds, fl \in FailPoints(mem["img"]) :
             BeginScan("render_transform_sample", mem["img"],
                       [NoArgs EXCEPT !.dst = d, !.fn = "rgb_to_greyscale", !.fail = fl,
                                      !.times = 1])
       /\ UNCHANGED mem
    \/ TransformInPlace("render_transform_sample")

RenderTransformSampleStep ==
    /\ op = "render_transform_sample"
    /\ status = "run"
    /\ calls' = Append(calls, <<j, i>>)
    /\ \E g \in Garbage :
          LET source == mem[args.src]
              output == mem[Output(args)]
              pixel  == GetPixelRgba(source, j, i, g)
              c      == RgbToGreyscale(<<j, i>>, pixel)
          IN  IF Throws THEN Propagate
              ELSE /\ mem' = [mem EXCEPT ![Output(args)] = SetPixel4(output, j, i, c)]
                   /\ overrun' = (overrun
                                    \/ Outside(source, Reads4(source, j, i)) # {}
                                    \/ Outside(output, DOMAIN Writes4(output, j, i, c)) # {})
                   /\ written' = written @@ (<<j, i>> :> c)
                   /\ Advance(source)
    /\ UNCHANGED <<codecvars, op, args, pre, ret, wr, rd, contrib, dropped>>

NextScan ==
    \/ CallRenderImgFn
    \/ RenderImgFnStep
    \/ CallRenderImgSample
    \/ RenderImgSampleStep
    \/ CallRenderImgVisit
    \/ RenderImgVisitStep
    \/ CallRenderTransformFn
    \/ RenderTransformFnStep
    \/ CallRenderTransformSample
    \/ RenderTransformSampleStep

SpecScan == Init /\ [][NextScan]_vars

\* ------------------------------------------------------------ flips
\* An image whose samples all differ: sample k is (k + 1) / 160.
RampImage(w, h, c) ==
    NewImage(w, h, c, [k \in 0 .. (w * h * c - 1) |-> (k + 1) * (One \div 160)])

InitFlip ==
    /\ \E w \in 0 .. MaxW, h \in 0 .. MaxH, c \in ChannelCounts :
          mem = [id \in ImgIds |-> RampImage(w, h, c)]
    /\ op = "idle"
    /\ args = NoArgs
    /\ pre = mem
    /\ ret = << >>
    /\ wr = {}
    /\ rd = {}
    /\ overrun = FALSE
    /\ status = "idle"
    /\ i = 0
    /\ j = 0
    /\ calls = << >>
    /\ written = << >>
    /\ contrib = << >>
    /\ dropped = <<0, 0, 0>>
    /\ file = << >>
    /\ fbuf = << >>
    /\ png = << >>

\* The bounds of the two loops: i < m_height / 2, j < m_width in flipv and
\* i < m_height, j < m_width / 2 in fliph.
FlipLoopWhole(name, im) == [width |-> im.width, height |-> im.height]
FlipLoop(name, im) ==
    [width  |-> IF name = "fliph" THEN im.width \div 2 ELSE im.width,
     height |-> IF name = "flipv" THEN im.height \div 2 ELSE im.height]

\* The other pixel of the pair: (j, m_height - 1 - i) in flipv and
\* (m_width - 1 - j, i) in fliph.
Mirror(name, im, x, y) ==
    IF name = "flipv" THEN <<x, im.height - 1 - y>> ELSE <<im.width - 1 - x, y>>

\* The body of the inner loop: a = get(p); b = get(q); set(p, b); set(q, a).
SwapCopies(im, p, q, ga, gb) ==
    LET b == GetPixelRgba(im, q[1], q[2], gb)
    IN  SetPixel4(SetPixel4(im, p[1], p[2], b), q[1], q[2], b)
Swap(im, p, q, ga, gb) ==
    LET a == GetPixelRgba(im, p[1], p[2], ga)
        b == GetPixelRgba(im, q[1], q[2], gb)
    IN  SetPixel4(SetPixel4(im, p[1], p[2], b), q[1], q[2], a)

\* A call of flipv / fliph on the image, and a second call of the same flip
\* once the first has returned.
CallFlip(name) ==
    \/ /\ BeginScan(name, FlipLoop(name, mem["img"]), [NoArgs EXCEPT !.times = 1])
       /\ UNCHANGED mem
    \/ /\ op = name
       /\ status = "done"
       /\ args.times = 1
       /\ args' = [args EXCEPT !.times = 2]
       /\ i' = FirstPos(FlipLoop(name, mem["img"]))[2]
       /\ j' = FirstPos(FlipLoop(name, mem["img"]))[1]
       /\ status' = IF FirstPos(FlipLoop(name, mem["img"]))[2]
                          < FlipLoop(name, mem["img"]).height
                    THEN "run" ELSE "done"
       /\ calls' = << >>
       /\ UNCHANGED <<codecvars, mem, op, pre, ret, wr, rd, overrun,
                      written, contrib, dropped>>

CallFlipv == CallFlip("flipv")

CallFliph == CallFlip("fliph")

\* One iteration of the inner loop of flipv / fliph.
FlipStep(name) ==
    /\ op = name
    /\ status = "run"
    /\ calls' = Append(calls, <<j, i>>)
    /\ \E ga \in Garbage, gb \in Garbage :
          LET im == mem["img"]
              q  == Mirror(name, im, j, i)
          IN  /\ mem' = [mem EXCEPT !["img"] = Swap(im, <<j, i>>, q, ga, gb)]
              /\ overrun' = (overrun
                               \/ Outside(im, Reads4(im, j, i)) # {}
                               \/ Outside(im, Reads4(im, q[1], q[2])) # {})
              /\ Advance(FlipLoop(name, im))
    /\ UNCHANGED <<codecvars, op, args, pre, ret, wr, rd, written, contrib, dropped>>

FlipvStep == FlipStep("flipv")

FliphStep == FlipStep("fliph")

NextFlip ==
    \/ CallFlipv
    \/ FlipvStep
    \/ CallFliph
    \/ FliphStep

SpecFlip == InitFlip /\ [][NextFlip]_vars

\* ------------------------------------------------------------ normalise
\* The floats that are not numbers of the grid: the results of x / 0.0f.
Infinity == 2^30
NotANumber == 2^30 + 1
Finite(v) == v \notin {Infinity, -Infinity, NotANumber}

\* Sample levels of the images handed to normalise, in thirty-seconds, repeated
\* along the buffer.
NormPatterns ==
    { <<16, 32, 8>>, <<16, 64>>, <<0>>, <<0, -8>>, <<-8, -16>>, <<3, 7, 5>>,
      <<32>>, <<1, 40, -3, 9>> }

LevelImage(w, h, c, pat) ==
    NewImage(w, h, c,
        [k \in 0 .. (w * h * c - 1) |-> pat[(k % Len(pat)) + 1] * (One \div 32)])

InitNormalise ==
    /\ \E w \in 0 .. MaxW, h \in 0 .. MaxH, c \in ChannelCounts, pat \in NormPatterns :
          mem = [id \in ImgIds |-> LevelImage(w, h, c, pat)]
    /\ op = "idle"
    /\ args = NoArgs
    /\ pre = mem
    /\ ret = << >>
    /\ wr = {}
    /\ rd = {}
    /\ overrun = FALSE
    /\ status = "idle"
    /\ i = 0
    /\ j = 0
    /\ calls = << >>
    /\ written = << >>
    /\ contrib = << >>
    /\ dropped = <<0, 0, 0>>
    /\ file = << >>
    /\ fbuf = << >>
    /\ png = << >>

\* *std::max_element(m_buffer, m_buffer + m_size) of a non-empty buffer.
FirstSample(buf) == buf[0]
MaxSample(buf) ==
    CHOOSE v \in {buf[k] : k \in DOMAIN buf} : \A k \in DOMAIN buf : buf[k] <= v

\* v / max for v >= 0 and max > 0, rounded to the nearest grid point: the
\* long division of v * One by max.
QuotPos(v, max) ==
    LET t == (v % max) * 4096
    IN  (v \div max) * One + (t \div max) * 10 + (2 * (t % max) * 10 + max) \div (2 * max)

\* value / max as the float division gives it: x / 0 is an infinity, 0 / 0 is
\* not a number.
Quot(v, max) ==
    IF max = 0 THEN (IF v = 0 THEN NotANumber ELSE IF v > 0 THEN Infinity ELSE -Infinity)
    ELSE IF (v < 0) = (max < 0)
         THEN QuotPos(IF v < 0 THEN -v ELSE v, IF max < 0 THEN -max ELSE max)
         ELSE -QuotPos(IF v < 0 THEN -v ELSE v, IF max < 0 THEN -max ELSE max)

\* image::normalise().  max_element of an empty range returns its end, so the
\* read of max is then a read outside the buffer; std::transform has no
\* sample to divide.  Nothing in the function throws.
Normalise ==
    /\ op = "idle"
    /\ \E g \in Garbage :
          LET im  == mem["img"]
              max == IF im.size = 0 THEN g ELSE MaxSample(im.buffer)
          IN  /\ mem' = [mem EXCEPT !["img"].buffer =
                                      [k \in DOMAIN im.buffer |-> Quot(im.buffer[k], max)]]
              /\ overrun' = (overrun \/ im.size = 0)
    /\ op' = "normalise"
    /\ status' = "done"
    /\ pre' = mem
    /\ UNCHANGED <<codecvars, args, ret, wr, rd, i, j, calls, written, contrib, dropped>>

NextNormalise == Normalise

SpecNormalise == InitNormalise /\ [][NextNormalise]_vars

\* ------------------------------------------------------------ ditherers
\* The sum of err[c] * weight over the first n kernel entries whose target
\* is the pixel p.
RECURSIVE DiffusedTo(_, _, _, _, _, _)
DiffusedTo(p, pos, kernel, n, err, c) ==
    IF n = 0 THEN 0
    ELSE DiffusedTo(p, pos, kernel, n - 1, err, c)
           + (IF <<pos[1] + kernel[n][1], pos[2] + kernel[n][2]>> = p
              THEN Scaled(err, kernel[n])[c] ELSE 0)

\* The sum of err[c] * weight over the first n kernel entries whose target
\* fails the bounds guard of set_pixel.
RECURSIVE DiffusedOutside(_, _, _, _, _, _)
DiffusedOutside(im, pos, kernel, n, err, c) ==
    IF n = 0 THEN 0
    ELSE DiffusedOutside(im, pos, kernel, n - 1, err, c)
           + (IF InBounds(im, pos[1] + kernel[n][1], pos[2] + kernel[n][2])
              THEN 0 ELSE Scaled(err, kernel[n])[c])

\* The indices the lambda reads or assigns at pos.
StepAccesses(im, pos, kernel) ==
    UNION { Reads4(im, p[1], p[2]) : p \in Touched(pos, kernel) }

\* dither_floyd_steinberg / dither_minimized_average_error: the memcpy of the
\* source buffer into the destination, then render_img(destination, lambda).
\* A second call with the same arguments, once the first has returned, finds
\* in the destination what the first call left there.
BeginDither(name) ==
    \/ /\ BeginScan(name, mem["out"],
                     [NoArgs EXCEPT !.dst = "out", !.fn = "quantise", !.times = 1])
       /\ mem' = [mem EXCEPT !["out"].buffer = mem["img"].buffer]
    \/ /\ op = name
       /\ status = "done"
       /\ args.times = 1
       /\ args' = [args EXCEPT !.times = 2]
       /\ pre' = mem
       /\ mem' = [mem EXCEPT !["out"].buffer = mem["img"].buffer]
       /\ i' = FirstPos(mem["out"])[2]
       /\ j' = FirstPos(mem["out"])[1]
       /\ status' = IF FirstPos(mem["out"])[2] < mem["out"].height THEN "run" ELSE "done"
       /\ calls' = << >>
       /\ written' = << >>
       /\ contrib' = [p \in DOMAIN contrib |-> <<0, 0, 0>>]
       /\ dropped' = <<0, 0, 0>>
       /\ UNCHANGED <<codecvars, op, ret, wr, rd, overrun>>

CallDitherFloydSteinberg == BeginDither("dither_fs")

CallDitherMinimizedAverageError == BeginDither("dither_mae")

\* One invocation of the lambda by render_img(image const&, render_set_fn_t).
DitherStep ==
    /\ op \in {"dither_fs", "dither_mae"}
    /\ status = "run"
    /\ calls' = Append(calls, <<j, i>>)
    /\ \E g \in Garbage :
          LET d      == mem[args.dst]
              pos    == <<j, i>>
              kernel == KernelOf(op)
              pixel  == GetPixelRgba(d, j, i, g)
              qp     == QuantiseGreyscale1bit(pixel)
              err    == <<pixel[1] - qp[1], pixel[2] - qp[2],
                          pixel[3] - qp[3], pixel[4] - qp[4]>>
          IN  /\ mem' = [mem EXCEPT ![args.dst] = DitherPixel(d, pos, pixel, kernel, g)]
              /\ written' = written @@ (pos :> qp)
              /\ contrib' = [p \in DOMAIN contrib |->
                               [c \in 1 .. 3 |->
                                  contrib[p][c] + DiffusedTo(p, pos, kernel, Len(kernel), err, c)]]
              /\ dropped' = [c \in 1 .. 3 |->
                               dropped[c] + DiffusedOutside(d, pos, kernel, Len(kernel), err, c)]
              /\ overrun' = (overrun \/ Outside(d, StepAccesses(d, pos, kernel)) # {})
              /\ Advance(d)
    /\ UNCHANGED <<codecvars, op, args, pre, ret, wr, rd>>

NextDither ==
    \/ CallDitherFloydSteinberg
    \/ CallDitherMinimizedAverageError
    \/ DitherStep

SpecDither == Init /\ [][NextDither]_vars

\* ------------------------------------------------------------ codec
\* A float is [neg, sig, exp], standing for (-1)^neg * sig * 2^exp, with
\* sig = 0 or 2^23 <= sig < 2^24.
Zero32 == [neg |-> FALSE, sig |-> 0, exp |-> 0]

\* Round the significand q, with remainder rem out of den lost below it, to
\* nearest, ties to even.
RoundEven(q, rem, den, e) ==
    LET up == 2 * rem > den \/ (2 * rem = den /\ q % 2 = 1)
        r  == IF up THEN q + 1 ELSE q
    IN  IF r = 2^24 THEN [neg |-> FALSE, sig |-> 2^23, exp |-> e + 1]
        ELSE [neg |-> FALSE, sig |-> r, exp |-> e]

\* (q + rem/den) * 2^e, shifted left until q has 24 bits, then rounded: the
\* quotient of a long division by den.
RECURSIVE Quotient(_, _, _, _)
Quotient(q, rem, den, e) ==
    IF q >= 2^23 THEN RoundEven(q, rem, den, e)
    ELSE Quotient(2 * q + (IF 2 * rem >= den THEN 1 ELSE 0), (2 * rem) % den, den, e - 1)

\* static_cast<float>(pixel) / 255.0f
DecodeBy256(b) == IF b = 0 THEN Zero32 ELSE Quotient(b \div 256, b % 256, 256, 0)
Decode(b) == IF b = 0 THEN Zero32 ELSE Quotient(b \div 255, b % 255, 255, 0)

\* pixel * 255.0f: the 32-bit product sig * 255, as hi * 4096 + lo, rounded
\* to 24 bits.
Times255(f) ==
    IF f.sig = 0 THEN f
    ELSE LET hi == (f.sig \div 4096) * 255 + ((f.sig % 4096) * 255) \div 4096
             lo == ((f.sig % 4096) * 255) % 4096
             s  == IF hi >= 2^19 THEN 8 ELSE 7
             r  == RoundEven(hi * 2^(12 - s) + lo \div 2^s, lo % 2^s, 2^s, f.exp + s)
         IN  [r EXCEPT !.neg = f.neg]

\* f >= 255.0f, for f >= 0.
AtLeast255(f) == f.sig # 0 /\ (f.exp > -16 \/ (f.exp = -16 /\ f.sig >= 255 * 2^16))

\* The conversion to an 8-bit integer without the clamp: the truncation, then
\* the value modulo 256.
WrapToByte(f) ==
    IF f.sig = 0 \/ f.exp <= -24 \/ f.exp > 0 THEN 0
    ELSE LET t == f.sig \div 2^(-f.exp)
         IN  IF f.neg THEN (256 - (t % 256)) % 256 ELSE t % 256
\* std::uint8_t(std::clamp(f, 0.0f, 255.0f)): the clamp, then the truncation.
ClampToByte(f) ==
    IF f.neg \/ f.sig = 0 THEN 0
    ELSE IF AtLeast255(f) THEN 255
    ELSE IF f.exp <= -24 THEN 0
    ELSE f.sig \div 2^(-f.exp)

\* The lambda of write_png.
Encode(f) == ClampToByte(Times255(f))

\* The floats a caller may leave in a buffer: zero, and +-sig * 2^exp around
\* 2^-8, 1/8, 1/2, 1, 2 and 4.
SampleSigs == {2^23, 2^23 + 1, 2^23 + 2^8, 3 * 2^22, 2^24 - 2^8, 2^24 - 1}
SampleExps == {-31, -26, -24, -23, -22}
Samples ==
    {Zero32} \cup [neg : BOOLEAN, sig : SampleSigs, exp : SampleExps]

\* The files of the model: a 1x1 image of n channels whose samples are b,
\* b + 85, ... modulo 256.
FileBytes(b, n) == [k \in 0 .. n - 1 |-> (b + 85 * k) % 256]

\* Before main() has loaded anything.
InitCodec ==
    /\ mem = [id \in ImgIds |-> NewImage(0, 0, 3, << >>)]
    /\ op = "idle"
    /\ args = NoArgs
    /\ pre = mem
    /\ ret = << >>
    /\ wr = {}
    /\ rd = {}
    /\ overrun = FALSE
    /\ status = "idle"
    /\ i = 0
    /\ j = 0
    /\ calls = << >>
    /\ written = << >>
    /\ contrib = << >>
    /\ dropped = <<0, 0, 0>>
    /\ file = << >>
    /\ fbuf = << >>
    /\ png = << >>

\* image::image(filename): stbi_load, then every sample divided by 255.0f.
LoadImage ==
    /\ op = "idle"
    /\ \E b \in 0 .. 255, n \in {3, 4} :
          /\ file' = FileBytes(b, n)
          /\ fbuf' = [k \in 0 .. n - 1 |-> Decode(FileBytes(b, n)[k])]
    /\ op' = "load"
    /\ UNCHANGED <<mem, args, pre, ret, wr, rd, overrun, scanvars, png>>

\* image::image(width, height, channels) of a 1x1 image, then set_pixel with
\* the colour <<a, b, a, b>>: the buffer holds a and b in turn.
SetSamples ==
    /\ op = "idle"
    /\ \E a \in Samples, b \in Samples, n \in {3, 4} :
          fbuf' = [k \in 0 .. n - 1 |-> IF k % 2 = 0 THEN a ELSE b]
    /\ op' = "set_samples"
    /\ UNCHANGED <<mem, args, pre, ret, wr, rd, overrun, scanvars, file, png>>

\* write_png(filename, img): every sample through the lambda, in buffer order.
WritePng ==
    /\ op \in {"load", "set_samples"}
    /\ png' = [k \in DOMAIN fbuf |-> Encode(fbuf[k])]
    /\ op' = "write_png"
    /\ UNCHANGED <<mem, args, pre, ret, wr, rd, overrun, scanvars, file, fbuf>>

NextCodec ==
    \/ LoadImage
    \/ WritePng

SpecCodec == InitCodec /\ [][NextCodec]_vars

\* write_png of an image whose samples were assigned, not loaded.
NextEncode ==
    \/ SetSamples
    \/ WritePng

SpecEncode == InitCodec /\ [][NextEncode]_vars

\* ------------------------------------------------------------ the program
Next ==
    \/ NextPixel
    \/ NextScan
    \/ NextDither

Spec == Init /\ [][Next]_vars

\* ------------------------------------------------------------ claims: pixel access
\* The samples of pixel (x, y) by the layout formula of the buffer:
\* (y * channels) * width + x * channels + c for 0 <= c < channels.
OwnSamples(im, x, y) ==
    { (y * im.channels) * im.width + x * im.channels + c : c \in 0 .. (im.channels - 1) }

\* (x, y) lies outside [0, width) x [0, height).
OutOfImage(im, x, y) == x < 0 \/ x >= im.width \/ y < 0 \/ y >= im.height

\* C4: at every (x, y) outside the image, negative coordinates included,
\* get_pixel_rgb and get_pixel_rgba return the all-zero pixel (alpha 0 too,
\* whatever the channel count) and either overload of set_pixel leaves every
\* sample of the buffer as it was before the call.
C4_BoundsLeniency ==
    OutOfImage(pre["img"], args.x, args.y) =>
        /\ op = "get_pixel_rgb" => (ret = <<0, 0, 0>> /\ rd = {})
        /\ op = "get_pixel_rgba" => (ret = <<0, 0, 0, 0>> /\ rd = {})
        /\ op = "set_pixel" => (mem = pre /\ wr = {})

\* A set_pixel(vec4) one column right of a non-empty image has just returned.
C4_Witness ==
    /\ op = "set_pixel"
    /\ args.set = "vec4"
    /\ pre["img"].height > 1
    /\ args.x = pre["img"].width
    /\ args.y = 0
    /\ mem = pre

\* C5: for every channel count and every in-bounds (x, y), set_pixel assigns
\* only samples of pixel (x, y), all inside the buffer, and leaves every other
\* sample unchanged; get_pixel_rgb / get_pixel_rgba read only indices inside
\* the buffer.
C5_OnlyOwnSamples ==
    LET im == pre["img"]
    IN  ~OutOfImage(im, args.x, args.y) =>
            /\ op = "set_pixel" =>
                  /\ wr \subseteq OwnSamples(im, args.x, args.y)
                  /\ wr \subseteq 0 .. (im.width * im.height * im.channels - 1)
                  /\ \A k \in DOMAIN im.buffer \ OwnSamples(im, args.x, args.y) :
                        mem["img"].buffer[k] = im.buffer[k]
            /\ op \in {"get_pixel_rgb", "get_pixel_rgba"} =>
                  rd \subseteq 0 .. (im.width * im.height * im.channels - 1)

\* C6: on a 3-channel buffer get_pixel_rgba returns alpha 1.0 at every
\* in-bounds (x, y) and set_pixel(vec4) stores R, G and B only; on a 4-channel
\* buffer set_pixel(vec4) followed by get_pixel_rgba at the same in-bounds
\* coordinate returns the four components that were set.
C6_AlphaOnRgbAndRgba ==
    LET im  == pre["img"]
        own == OwnSamples(im, args.x, args.y)
        idx == (args.y * im.channels) * im.width + args.x * im.channels
    IN  ~OutOfImage(im, args.x, args.y) =>
            /\ (im.channels = 3 /\ op = "get_pixel_rgba") => ret[4] = One
            /\ (im.channels = 3 /\ op = "set_pixel" /\ args.set = "vec4") =>
                  /\ wr = own
                  /\ mem["img"].buffer[idx] = args.color[1]
                  /\ mem["img"].buffer[idx + 1] = args.color[2]
                  /\ mem["img"].buffer[idx + 2] = args.color[3]
                  /\ \A k \in DOMAIN im.buffer \ own : mem["img"].buffer[k] = im.buffer[k]
            /\ (im.channels = 4 /\ op = "get_pixel_rgba" /\ args.set = "vec4") =>
                  ret = args.color

\* A 4-channel set_pixel(vec4) then get_pixel_rgba at a pixel that is not the
\* last one of the buffer.
C6_Witness ==
    /\ op = "get_pixel_rgba"
    /\ args.set = "vec4"
    /\ pre["img"].channels = 4
    /\ pre["img"].width > 1
    /\ args.x = 0
    /\ args.y = 0
    /\ ret = args.color

\* ------------------------------------------------------------ claims: ditherers
Ditherers == {"dither_fs", "dither_mae"}

\* The raster rank of (x, y) in an image of width w.
Rank(w, x, y) == y * w + x

\* |v|
Abs(v) == IF v < 0 THEN -v ELSE v

\* The sum of the samples buf[k] with k < n and k % channels = c - 1 (every
\* sample when c = 0).
RECURSIVE SampleSum(_, _, _, _)
SampleSum(buf, channels, c, n) ==
    IF n = 0 THEN 0
    ELSE SampleSum(buf, channels, c, n - 1)
           + (IF c = 0 \/ (n - 1) % channels = c - 1 THEN buf[n - 1] ELSE 0)

\* C1: during dither_floyd_steinberg and dither_minimized_average_error every
\* kernel target lies strictly ahead of the current position in raster order,
\* and a pixel, once quantised and written, keeps in each of its samples the
\* quantiser output of its own turn, through the rest of the scan and when
\* the scan completes, for every image size and channel count.
C1_QuantisedPixelsAreFinal ==
    op \in Ditherers =>
        LET d == mem[args.dst]
        IN  /\ \A n \in 1 .. Len(KernelOf(op)) :
                  \/ KernelOf(op)[n][2] > 0
                  \/ (KernelOf(op)[n][2] = 0 /\ KernelOf(op)[n][1] > 0)
            /\ \A p \in DOMAIN written :
                  \A c \in 0 .. (d.channels - 1) :
                     d.buffer[(p[2] * d.channels) * d.width + p[1] * d.channels + c]
                        = written[p][c + 1]
            /\ status = "done" =>
                  DOMAIN written = (0 .. d.width - 1) \X (0 .. d.height - 1)

\* A finished Floyd-Steinberg scan of a 4x4 image that wrote both a black and
\* a white pixel.
C1_Witness ==
    /\ op = "dither_fs"
    /\ status = "done"
    /\ mem["out"].width = 4
    /\ mem["out"].height = 4
    /\ \E p, q \in DOMAIN written : written[p][1] = 0 /\ written[q][1] = One

\* The threshold quantiser on one sample.
Q(v) == IF v < Half THEN 0 ELSE One

\* C2: the 2x2 one-channel buffer [0.6, 0.4, 0.6, 0.4] dithered with the
\* threshold quantiser and the Floyd-Steinberg kernel ends as
\* [1.0, q(0.4 + 0.6*7/16), 1.0, q(0.4 + propagated error)], the propagated
\* error being the sum of the contributions diffused into pixel (1,1).
C2_Scenario2x2 ==
    ( /\ op = "dither_fs"
      /\ status = "done"
      /\ pre["img"].width = 2
      /\ pre["img"].height = 2
      /\ pre["img"].channels = 1
      /\ pre["img"].buffer =
            (0 :> (6 * One) \div 10) @@ (1 :> (4 * One) \div 10)
              @@ (2 :> (6 * One) \div 10) @@ (3 :> (4 * One) \div 10) )
    => mem["out"].buffer =
            (0 :> One) @@ (1 :> Q((4 * One) \div 10 + MulW((6 * One) \div 10, 7, 16)))
              @@ (2 :> One) @@ (3 :> Q((4 * One) \div 10 + contrib[<<1, 1>>][1]))

\* The rounding a Floyd-Steinberg scan of im can accumulate: half a grid step
\* per product, four products per pixel.
Tolerance(im) == 2 * im.width * im.height

\* Every sample of the image has the same value.
ConstantGrey(im) == \A k, l \in DOMAIN im.buffer : im.buffer[k] = im.buffer[l]

Scans ==
    {"render_img_fn", "render_img_sample", "render_img_visit",
     "render_transform_fn", "render_transform_sample"}

WritingScans == Scans \ {"render_img_visit"}

\* C7: each scan invokes its callback at the coordinates of the image in
\* raster order, y outer and ascending, x inner and ascending, each coordinate
\* once, and has made exactly width*height invocations when it returns; none
\* for an image of width 0 or height 0.
C7_RasterOrder ==
    op \in Scans =>
        LET w == pre[args.src].width
            h == pre[args.src].height
        IN  /\ Len(calls) <= w * h
            /\ \A n \in 1 .. Len(calls) : calls[n] = <<(n - 1) % w, (n - 1) \div w>>
            /\ status = "done" => Len(calls) = w * h
            /\ status = "run" => (Len(calls) < w * h /\ <<j, i>> = <<Len(calls) % w, Len(calls) \div w>>)

\* A render_transform over a 3x2 image has returned after six callbacks.
C7_Witness ==
    /\ op = "render_transform_sample"
    /\ status = "done"
    /\ pre["img"].width = 3
    /\ pre["img"].height = 2
    /\ Len(calls) = 6

\* C8: the read-only render_img changes no sample of the image it visits
\* (its callback assigning nothing), and render_transform and the ditherers,
\* given a destination other than the source, change no sample of the source.
C8_SourceUnchanged ==
    /\ op = "render_img_visit" => mem = pre
    /\ (op \in {"render_transform_fn", "render_transform_sample"} \cup Ditherers
          /\ args.src # args.dst) => mem[args.src] = pre[args.src]

\* A render_transform into the other image has rewritten that image and
\* returned.
C8_Witness ==
    /\ op = "render_transform_fn"
    /\ status = "done"
    /\ args.src # args.dst
    /\ mem[args.dst] # pre[args.dst]
    /\ pre["img"].width = 2

\* C9: when the callback fails at (x, y) the scan stops there: no sample of
\* (x, y) or of a later coordinate differs from its value before the scan, and
\* every earlier coordinate holds the value the scan wrote at its turn.
C9_FailedScanStopsThere ==
    (op \in WritingScans /\ status = "failed") =>
        LET im  == pre[args.dst]
            cur == mem[args.dst]
        IN  \A x \in 0 .. im.width - 1, y \in 0 .. im.height - 1 :
               IF Rank(im.width, x, y) >= Rank(im.width, args.fail[1], args.fail[2])
               THEN \A k \in OwnSamples(im, x, y) : cur.buffer[k] = im.buffer[k]
               ELSE \A c \in 0 .. (im.channels - 1) :
                       cur.buffer[(y * im.channels) * im.width + x * im.channels + c]
                          = written[<<x, y>>][c + 1]

\* C9 on buffers of three or four channels.
C9_FailedScanStopsThereRgb ==
    pre["img"].channels \in {3, 4} => C9_FailedScanStopsThere

\* ------------------------------------------------------------ claims: codec
\* C10: every 8-bit sample b, decoded to b / 255.0f and encoded back (times
\* 255.0f, clamped to [0, 255], truncated), is b again: write_png of a freshly
\* loaded RGB or RGBA image reproduces the file's samples.
C10_CodecRoundTrip ==
    op = "write_png" => png = file

\* An RGBA file whose first sample is 1 has been loaded and written back.
C10_Witness ==
    /\ op = "write_png"
    /\ DOMAIN file = 0 .. 3
    /\ file[0] = 1
    /\ png[0] = 1

\* trunc(h * 2^8 * 255 / 2^(e + 8)) for a 16-bit h: the product is exact.
Trunc255(h, e) == IF e > 30 THEN 0 ELSE (h * 255) \div 2^e

\* C11: write_png maps every sample v, negative or above 1 included, to the
\* byte trunc(clamp(v * 255, 0, 255)): v <= 0 gives 0, v >= 1 gives 255, a
\* v in between gives trunc(v * 255) (exactly when the product is exact, and
\* between the bytes of the two neighbouring exact products otherwise), no
\* sample wraps modulo 256, and there is one byte per sample, in buffer order.
C11_EncodeClamps ==
    op = "write_png" =>
        /\ DOMAIN png = DOMAIN fbuf
        /\ \A k \in DOMAIN fbuf :
              LET f == fbuf[k]
                  h == f.sig \div 2^8
              IN  /\ png[k] \in 0 .. 255
                  /\ (f.neg \/ f.sig = 0) => png[k] = 0
                  /\ (~f.neg /\ f.sig # 0 /\ f.exp >= -23) => png[k] = 255
                  /\ (~f.neg /\ f.sig # 0 /\ f.exp < -23) =>
                        /\ png[k] <= 254
                        /\ Trunc255(h, -f.exp - 8) <= png[k]
                        /\ png[k] <= Trunc255(h + 1, -f.exp - 8)
                        /\ f.sig % 2^8 = 0 => png[k] = Trunc255(h, -f.exp - 8)

\* An RGBA buffer holding -1.5, 2.0, -1.5, 2.0 has been written as 0, 255, 0,
\* 255.
C11_Witness ==
    /\ op = "write_png"
    /\ DOMAIN fbuf = 0 .. 3
    /\ fbuf[0] = [neg |-> TRUE, sig |-> 3 * 2^22, exp |-> -22]
    /\ fbuf[1] = [neg |-> FALSE, sig |-> 2^23, exp |-> -22]
    /\ png = (0 :> 0) @@ (1 :> 255) @@ (2 :> 0) @@ (3 :> 255)

\* ------------------------------------------------------------ claims: flips
Flips == {"flipv", "fliph"}

\* C12: on a buffer of 3 or 4 channels, of any width and height, odd or even,
\* flipv applied twice restores every sample, and so does fliph applied twice.
C12_FlipInvolution ==
    (op \in Flips /\ args.times = 2 /\ status = "done"
       /\ pre["img"].channels \in {3, 4}) =>
        mem["img"] = pre["img"]

\* A 3x3 RGBA image whose first flipv changed it and whose second flipv has
\* returned.
C12_Witness ==
    /\ op = "flipv"
    /\ args.times = 2
    /\ status = "done"
    /\ pre["img"].channels = 4
    /\ pre["img"].width = 3
    /\ pre["img"].height = 3
    /\ Len(calls) = 3

\* C19: after flipv the pixel at every in-bounds (x, y) is the pixel that was
\* at (x, height-1-y), and after fliph the one that was at (width-1-x, y); a
\* middle row (column) of an odd height (width) is as it was; each pair of
\* pixels of each pair of rows (columns) is swapped exactly once.
C19_FlipMirrors ==
    (op \in Flips /\ args.times = 1) =>
        LET im   == pre["img"]
            cur  == mem["img"]
            rows == IF op = "flipv" THEN im.height \div 2 ELSE im.height
            cols == IF op = "fliph" THEN im.width \div 2 ELSE im.width
        IN  /\ \A n \in 1 .. Len(calls) :
                  calls[n] = <<(n - 1) % cols, (n - 1) \div cols>>
            /\ status = "done" =>
                  /\ Len(calls) = rows * cols
                  /\ \A x \in 0 .. im.width - 1, y \in 0 .. im.height - 1 :
                        LET xm == IF op = "fliph" THEN im.width - 1 - x ELSE x
                            ym == IF op = "flipv" THEN im.height - 1 - y ELSE y
                        IN  \A c \in 0 .. (im.channels - 1) :
                               cur.buffer[(y * im.channels) * im.width + x * im.channels + c]
                                 = im.buffer[(ym * im.channels) * im.width
                                               + xm * im.channels + c]

\* C19 on buffers of three or four channels.
C19_FlipMirrorsRgb ==
    pre["img"].channels \in {3, 4} => C19_FlipMirrors

\* ------------------------------------------------------------ claims: normalise
\* The largest sample of a non-empty buffer.
Largest(buf) == CHOOSE v \in {buf[k] : k \in DOMAIN buf} : \A k \in DOMAIN buf : buf[k] <= v

\* A sample in thirty-seconds.
Level(v) == v \div (One \div 32)

\* C13: normalise divides every sample by the largest sample the buffer had
\* before the call: [0.5, 1.0, 0.25] stays as it is and [0.5, 2.0] becomes
\* [0.25, 1.0]; when that largest sample is positive, the largest sample
\* afterwards is exactly 1 and the ratio of any two samples is preserved (up
\* to the rounding of the quotients).
C13_NormaliseDividesByMax ==
    (op = "normalise" /\ pre["img"].size > 0 /\ Largest(pre["img"].buffer) > 0) =>
        LET old == pre["img"].buffer
            new == mem["img"].buffer
            max == Level(Largest(old))
        IN  /\ \A k \in DOMAIN old : 2 * Abs(new[k] * max - Level(old[k]) * One) <= max
            /\ Largest(new) = One
            /\ \A k, l \in DOMAIN old :
                  2 * Abs(new[k] * Level(old[l]) - new[l] * Level(old[k]))
                     <= Abs(Level(old[k])) + Abs(Level(old[l]))
            /\ old = (0 :> Half) @@ (1 :> One) @@ (2 :> One \div 4) => new = old
            /\ old = (0 :> Half) @@ (1 :> 2 * One) =>
                  new = (0 :> One \div 4) @@ (1 :> One)

\* normalise of the buffer [0.5, 2.0] has returned [0.25, 1.0].
C13_Witness ==
    /\ op = "normalise"
    /\ pre["img"].buffer = (0 :> Half) @@ (1 :> 2 * One)
    /\ mem["img"].buffer = (0 :> One \div 4) @@ (1 :> One)

\* C14: normalise of an empty buffer, or of a buffer whose largest sample is
\* 0, fails with a DivideByZero error: it changes no sample, and no sample is
\* infinite or not a number afterwards.
C14_NormaliseGuardsZero ==
    (op = "normalise"
       /\ (pre["img"].size = 0 \/ Largest(pre["img"].buffer) = 0)) =>
        /\ status = "failed"
        /\ mem = pre
        /\ \A k \in DOMAIN mem["img"].buffer : Finite(mem["img"].buffer[k])

\* ------------------------------------------------------------ claims: ditherers, continued
\* C15: on a 4-channel destination every write of the ditherer, the quantised
\* pixel at (x, y) and each kernel-target update, stores alpha 1.0, so every
\* pixel already scanned has alpha 1.0 and, after the scan, every pixel of
\* the destination has, whatever alpha the quantiser returned.
C15_AlphaForcedOpaque ==
    (op \in Ditherers /\ mem[args.dst].channels = 4) =>
        LET d == mem[args.dst]
        IN  /\ \A p \in DOMAIN written : d.buffer[Index(d, p[1], p[2]) + 3] = One
            /\ status = "done" =>
                  \A x \in 0 .. d.width - 1, y \in 0 .. d.height - 1 :
                     d.buffer[Index(d, x, y) + 3] = One

\* On a 4-channel destination the pixels the scan has not reached yet, once
\* a kernel update has touched them, have alpha 1.0: update_pixel stores
\* {k.r, k.g, k.b, 1.0f}.
C15_UpdatesStoreOpaque ==
    (op \in Ditherers /\ mem[args.dst].channels = 4) =>
        LET d == mem[args.dst]
        IN  \A p \in DOMAIN contrib \ DOMAIN written :
               (\E n \in 1 .. Len(calls), t \in 1 .. Len(KernelOf(op)) :
                   p = <<calls[n][1] + KernelOf(op)[t][1], calls[n][2] + KernelOf(op)[t][2]>>)
                 => d.buffer[Index(d, p[1], p[2]) + 3] = One

\* C16: a second run of the same ditherer on the same source, with the same
\* quantiser, into the same destination, which now holds what the first run
\* left instead of what it held before the first run, ends with the
\* destination buffer the first run ended with.
C16_SecondRunSameResult ==
    (op \in Ditherers /\ args.times = 2 /\ status = "done") =>
        mem["out"] = pre["out"]

\* The second minimized-average-error run over a 4x4 RGB image has returned,
\* and the destination it started from held a white pixel (before the first
\* run it held none).
C16_Witness ==
    /\ op = "dither_mae"
    /\ args.times = 2
    /\ status = "done"
    /\ mem["out"].width = 4
    /\ mem["out"].height = 4
    /\ mem["out"].channels = 3
    /\ \E k \in DOMAIN pre["out"].buffer : pre["out"].buffer[k] = One
    /\ mem["img"] = pre["img"]

\* The colour samples a pixel has: three, or the one of a 1-channel buffer.
Lanes(im) == IF im.channels < 3 THEN im.channels ELSE 3

\* C17: the destination starts the scan as a copy of the source, and the
\* value quantised at (x, y) is source(x, y) plus the sum of w * err(x', y')
\* over the pixels (x', y') scanned before and the kernel entries (dx, dy, w)
\* with (x'+dx, y'+dy) = (x, y), each taken once; a contribution whose target
\* is out of bounds lands on no pixel.  Every pixel not scanned yet, the
\* current one first, holds its source value plus the contributions so far.
C17_ValueIsSourcePlusContributions ==
    op \in Ditherers =>
        LET d   == mem[args.dst]
            src == pre["img"]
        IN  /\ Len(calls) = 0 => d.buffer = src.buffer
            /\ \A p \in DOMAIN contrib \ DOMAIN written :
                  \A c \in 1 .. Lanes(d) :
                     d.buffer[Index(d, p[1], p[2]) + c - 1]
                        = src.buffer[Index(src, p[1], p[2]) + c - 1] + contrib[p][c]

\* C17 on buffers of three or four channels.
C17_ValueIsSourcePlusContributionsRgb ==
    pre["img"].channels \in {3, 4} => C17_ValueIsSourcePlusContributions

\* ------------------------------------------------------------ claims: scans, continued
\* One step of render_img(image&, sample_fn_t) that returns from its callback:
\* the pixel handed to the callback is the one stored at (j, i) when the step
\* begins, the colour written is the callback's result for that pixel, and
\* it is in the buffer when the step ends.
SampleStepReadsThenWrites ==
    (op = "render_img_sample" /\ status = "run" /\ status' # "failed") =>
        LET im == mem["img"]
        IN  /\ \E g \in Garbage : ret' = GetPixelRgba(im, j, i, g)
            /\ \A c \in 1 .. Lanes(im) : ret'[c] = im.buffer[Index(im, j, i) + c - 1]
            /\ written'[<<j, i>>] = RgbToGreyscale(<<j, i>>, ret')
            /\ \A c \in 1 .. Lanes(im) :
                  mem'["img"].buffer[Index(im, j, i) + c - 1] = written'[<<j, i>>][c]

\* During render_img(image&, sample_fn_t) every coordinate already visited
\* holds what the scan wrote there.
VisitedHoldWritten ==
    op = "render_img_sample" =>
        \A p \in DOMAIN written :
           mem["img"].buffer[Index(mem["img"], p[1], p[2])] = written[p][1]

\* C18: in render_img(image&, sample_fn_t) the value passed to the callback
\* at (x, y) is read from the buffer as it is stored at that moment, writes
\* of earlier steps included, before the scan writes (x, y); the write at
\* (x, y) follows the callback's return; an already-visited coordinate holds
\* the overwritten value.
C18_SampleReadBeforeWrite ==
    []VisitedHoldWritten /\ [][SampleStepReadsThenWrites]_vars

\* The sampling scan is at its second pixel and the first one no longer holds
\* its original value.
C18_Witness ==
    /\ op = "render_img_sample"
    /\ status = "run"
    /\ Len(calls) = 1
    /\ j = 1
    /\ mem["img"].buffer[0] # pre["img"].buffer[0]
    /\ mem["img"].buffer[0] = written[<<0, 0>>][1]

\* ------------------------------------------------------------ claims: kernels
\* The sum of the numerators of the first n kernel entries.
RECURSIVE TotalWeight(_, _)
TotalWeight(kernel, n) ==
    IF n = 0 THEN 0 ELSE TotalWeight(kernel, n - 1) + kernel[n][3]

\* The sum of the numerators of the first n kernel entries whose target, from
\* pos, lies outside the image.
RECURSIVE OutsideWeight(_, _, _, _)
OutsideWeight(im, pos, kernel, n) ==
    IF n = 0 THEN 0
    ELSE OutsideWeight(im, pos, kernel, n - 1)
           + (IF OutOfImage(im, pos[1] + kernel[n][1], pos[2] + kernel[n][2])
              THEN kernel[n][3] ELSE 0)

\* The weights of each kernel are fractions of one denominator and sum to 1.
WeightsSumToOne ==
    \A name \in Ditherers :
       LET kernel == KernelOf(name)
       IN  /\ \A n \in 1 .. Len(kernel) : kernel[n][4] = kernel[1][4]
           /\ TotalWeight(kernel, Len(kernel)) = kernel[1][4]

\* One dither step at (j, i): in each colour channel the sum over the whole
\* destination buffer changes by -err times the total weight of the kernel
\* targets outside the image (by nothing when every target is inside), up to
\* the rounding of one product per kernel entry.
StepChangesSumByDroppedError ==
    (op \in Ditherers /\ status = "run") =>
        LET d      == mem[args.dst]
            dd     == mem'[args.dst]
            kernel == KernelOf(op)
            den    == kernel[1][4]
            out    == OutsideWeight(d, <<j, i>>, kernel, Len(kernel))
        IN  \A c \in 1 .. Lanes(d) :
               LET err   == d.buffer[Index(d, j, i) + c - 1] - written'[<<j, i>>][c]
                   delta == SampleSum(dd.buffer, dd.channels, c, dd.size)
                              - SampleSum(d.buffer, d.channels, c, d.size)
               IN  Abs(delta * den + err * out) <= den * Len(kernel)

\* C20: the weights of each shipped kernel sum to 1, so a dither step all of
\* whose kernel targets are in bounds leaves the sum of each colour channel
\* over the destination buffer unchanged, and a step with targets out of
\* bounds changes it by -err times the total weight of those targets.
C20_StepConservesSum ==
    []WeightsSumToOne /\ [][StepChangesSumByDroppedError]_vars

\* C20 on buffers of three or four channels.
ThreeOrFourChannels == mem["out"].channels \in {3, 4}

C20_StepConservesSumRgb ==
    []WeightsSumToOne /\ [][ThreeOrFourChannels => StepChangesSumByDroppedError]_vars

\* ------------------------------------------------------------ claims: render_transform
Transforms == {"render_transform_fn", "render_transform_sample"}

\* C21: for 1, 3 and 4 channels, render_transform applied to a buffer in
\* place ends with the buffer that render_transform from that buffer into a
\* distinct destination of the same dimensions and channel count ends with.
C21_InPlaceEqualsDistinct ==
    (op \in Transforms /\ args.times = 2 /\ status = "done") =>
        mem["img"].buffer = mem["out"].buffer

\* C21 on buffers of three or four channels.
C21_InPlaceEqualsDistinctRgb ==
    mem["img"].channels \in {3, 4} => C21_InPlaceEqualsDistinct

====
